---- MODULE Spec2Model ----
(***************************************************************************)
(* Model of app.py, the Streamlit script of the school-library reading     *)
(* support chatbot.                                                        *)
(*                                                                         *)
(* One server process runs the script top to bottom once per "script run"  *)
(* of a browser session.  Process-wide state: the working directory        *)
(* (chroma_db, chroma_db.zip) and the st.cache_resource entry of           *)
(* load_rag_chain.  Per-session state: st.session_state and the locals of  *)
(* the script run in progress.                                             *)
(*                                                                         *)
(* Text is a sequence of characters.  A Hangul syllable is one character,  *)
(* written as its capitalised romanisation ("Hak" is one character, the    *)
(* syllable of "hak-nyeon"); Latin letters, digits and punctuation are     *)
(* themselves, in lower case.  Len therefore is Python's len.              *)
(***************************************************************************)
EXTENDS Integers, Sequences, FiniteSets, TLC

(***************************************************************************)
(* Bounds of the model.                                                    *)
(***************************************************************************)
NumSessions == 2
MaxTurns == 2
MaxDownloadFailures == 1

Sessions == 1..NumSessions

(***************************************************************************)
(* Literals of the script.                                                 *)
(***************************************************************************)
\* "도서관 이용 안내", "책 추천", "독서활동": the options of st.radio
LibraryInfo == <<"Do", "Seo", "Gwan", " ", "I", "Yong", " ", "An", "Nae">>
BookRecommendation == <<"Chaek", " ", "Chu", "Cheon">>
ReadingActivity == <<"Dok", "Seo", "Hwal", "Dong">>
Menus == {LibraryInfo, BookRecommendation, ReadingActivity}

\* "없음"
Eopseum == <<"Eops", "Eum">>
\* "초등", "중등", "고등": the options of st.selectbox
Grades == {<<"Cho", "Deung">>, <<"Jung", "Deung">>, <<"Go", "Deung">>}
\* "쉬움", "보통", "어려움": the options of st.select_slider
Levels == {<<"Swi", "Um">>, <<"Bo", "Tong">>, <<"Eo", "Ryeo", "Um">>}

\* the heading line of each MODE_PROMPT fragment (its bullet lines are fixed
\* text that no operation inspects)
MODE_PROMPT(m) ==
    IF m = LibraryInfo
      THEN <<"[">> \o LibraryInfo \o <<" ", "Mo", "Deu", " ", "Ji", "Chim", "]">>
    ELSE IF m = BookRecommendation
      THEN <<"[">> \o BookRecommendation \o <<" ", "Mo", "Deu", " ", "Ji", "Chim", "]">>
    ELSE IF m = ReadingActivity
      THEN <<"[">> \o ReadingActivity \o <<" ", "Mo", "Deu", " ", "Ji", "Chim", "]">>
    ELSE <<>>

\* search_kwargs={"k": 4}
K == 4
\* wrap_lines(text, max_chars=65)
max_chars == 65

(***************************************************************************)
(* Inputs the environment supplies.                                        *)
(***************************************************************************)
\* "추리소설 추천해줘" and "대출"
Utterances == { <<"Chu", "Ri", "So", "Seol", " ", "Chu", "Cheon", "Hae", "Jwo">>,
                <<"Dae", "Chul">> }
\* st.text_input: the empty default and "추리"
Interests == { <<>>, <<"Chu", "Ri">> }
\* texts the language model returns: "답"
Answers == { <<"Dap">> }

VARIABLES
    chroma_db,       \* the directory: "absent", "empty" or "index" (unpacked)
    chroma_db_zip,   \* the archive: "absent", "small", "bad" or "good"
    cache,           \* st.cache_resource entry of load_rag_chain: <<>> or <<chain>>
    lock,            \* holder of the cache's compute lock, 0 when free
    built,           \* number of chain objects constructed so far
    downloads,       \* number of gdown.download calls so far
    extracts,        \* number of extractall calls that unpacked the index
    dl_failures,     \* number of downloads that produced no file
    pc,              \* per session: position of its script run
    session_state,   \* per session: st.session_state
    rag_chain,       \* per session: <<>> or <<chain>> returned at line 215
    got,             \* per session: how line 215 obtained the chain
    menu, grade, interest, level,   \* per session: sidebar locals
    pdf_data,        \* per session: the lines of the PDF offered for download
    user_input,      \* per session: st.chat_input result, <<>> for None
    profile, question_for_rag, answer,       \* per session: turn locals
    retrieved,       \* per session: the texts passed to retriever.invoke in this run
    prompts,         \* per session: the prompts rendered in this run
    error,           \* per session: exception that ended the run, "none" if none
    before,          \* per session: the history when the run began
    generated        \* per session: number of chain invocations that returned

fsvars == <<chroma_db, chroma_db_zip, downloads, extracts, dl_failures>>
cachevars == <<cache, lock, built>>
sidebarvars == <<menu, grade, interest, level, pdf_data>>
turnvars == <<user_input, profile, question_for_rag, answer, retrieved, prompts>>
vars == <<fsvars, cachevars, pc, session_state, rag_chain, got, sidebarvars,
          turnvars, error, before, generated>>

(***************************************************************************)
(* Pure functions of the script.                                           *)
(***************************************************************************)
\* f"학년:{grade}, 관심:{interest or '없음'}, 읽기수준:{level}" without the "or"
ProfileStringNoSentinel(g, i, l) ==
    <<"Hak", "Nyeon", ":">> \o g
      \o <<",", " ", "Gwan", "Sim", ":">> \o i
      \o <<",", " ", "Ilk", "Gi", "Su", "Jun", ":">> \o l

\* f"학년:{grade}, 관심:{interest or '없음'}, 읽기수준:{level}"
ProfileString(g, i, l) ==
    <<"Hak", "Nyeon", ":">> \o g
      \o <<",", " ", "Gwan", "Sim", ":">> \o (IF i = <<>> THEN Eopseum ELSE i)
      \o <<",", " ", "Ilk", "Gi", "Su", "Jun", ":">> \o l

\* the rewrite applied in every mode
QuestionForRagEveryMode(m, u, p) ==
    u \o <<"\n", "\n", "[", "Hak", "Saeng", " ", "Jeong", "Bo", "]", " ">> \o p

\* the rewrite with a single line break
QuestionForRagOneBreak(m, u, p) ==
    IF m = BookRecommendation
      THEN u \o <<"\n", "[", "Hak", "Saeng", " ", "Jeong", "Bo", "]", " ">> \o p
      ELSE u

\* question_for_rag: f"{user_input}\n\n[학생 정보] {profile}" for "책 추천"
QuestionForRag(m, u, p) ==
    IF m = BookRecommendation
      THEN u \o <<"\n", "\n", "[", "Hak", "Saeng", " ", "Jeong", "Bo", "]", " ">> \o p
      ELSE u

\* "context": lambda x: retriever.invoke(x["question"])
ContextQuery(x) == x.question

\* a prompt whose question slot repeats the profile slot
RenderPromptProfileAsQuestion(x, ctx) ==
    [ mode_guide |-> x.mode_guide, menu |-> x.menu, profile |-> x.profile,
      context |-> ctx, question |-> x.profile ]

\* the slots of the ChatPromptTemplate as the chain's dict fills them
RenderPrompt(x, ctx) ==
    [ mode_guide |-> x.mode_guide, menu |-> x.menu, profile |-> x.profile,
      context |-> ctx, question |-> x.question ]

\* a list.append that inserts at the front
AppendMessageFront(msgs, role, content) ==
    <<[role |-> role, content |-> content]>> \o msgs

\* st.session_state["messages"].append({"role": ..., "content": ...})
AppendMessage(msgs, role, content) ==
    Append(msgs, [role |-> role, content |-> content])

\* a handler that records the failure as an assistant entry
HistoryAfterRaiseLogged(msgs) == AppendMessage(msgs, "assistant", <<"!">>)

\* rag_chain.invoke raises: the exception leaves the script and line 335
\* is not executed
HistoryAfterRaise(msgs) == msgs

RECURSIVE SplitLines(_)
\* str(text).split("\n")
SplitLines(text) ==
    IF \E n \in 1..Len(text) : text[n] = "\n"
      THEN LET n == CHOOSE k \in 1..Len(text) :
                      /\ text[k] = "\n"
                      /\ \A j \in 1..(k - 1) : text[j] # "\n"
           IN  <<SubSeq(text, 1, n - 1)>> \o SplitLines(SubSeq(text, n + 1, Len(text)))
      ELSE <<text>>

RECURSIVE WrapParagraph(_)
\* the while loop of wrap_lines on one paragraph
WrapParagraph(paragraph) ==
    IF Len(paragraph) > max_chars
      THEN <<SubSeq(paragraph, 1, max_chars)>>
             \o WrapParagraph(SubSeq(paragraph, max_chars + 1, Len(paragraph)))
      ELSE <<paragraph>>

RECURSIVE WrapAll(_)
WrapAll(paragraphs) ==
    IF paragraphs = <<>> THEN <<>>
    ELSE WrapParagraph(Head(paragraphs)) \o WrapAll(Tail(paragraphs))

\* wrap_lines
wrap_lines(text) == WrapAll(SplitLines(text))

RECURSIVE MessageLines(_)
\* the for loop over messages: "[학생]" or "[챗봇]", the wrapped content, ""
MessageLines(messages) ==
    IF messages = <<>> THEN <<>>
    ELSE LET m == Head(messages)
             role == IF m.role = "user" THEN <<"Hak", "Saeng">> ELSE <<"Chaet", "Bot">>
         IN  <<(<<"[">> \o role \o <<"]">>)>> \o wrap_lines(m.content) \o << <<>> >>
               \o MessageLines(Tail(messages))

\* the text lines build_chat_pdf draws, in order (page breaks move the pen,
\* they drop no line): title, "생성 시각", "탭", "학생 정보", then the messages
build_chat_pdf(messages, meta) ==
    << <<"Hak", "Gyo", "Do", "Seo", "Gwan", " ", "Dok", "Seo", "Hwal", "Dong", " ",
         "Ji", "Won", " ", "Chaet", "Bot", " ", "Ri", "Po", "Teu">>,
       <<"Saeng", "Seong", " ", "Si", "Gak", ":", " ", "%Y-%m-%d %H:%M">> >>
      \o (IF meta.menu # <<>>
            THEN << (<<"Taep", ":", " ">> \o meta.menu) >> ELSE <<>>)
      \o (IF meta.profile # <<>>
            THEN << (<<"Hak", "Saeng", " ", "Jeong", "Bo", ":", " ">> \o meta.profile) >>
            ELSE <<>>)
      \o MessageLines(messages)

(***************************************************************************)
(* State.                                                                  *)
(***************************************************************************)
NoState == [k \in {} |-> <<>>]

\* st.session_state.get("messages", [])
Messages(s) ==
    IF "messages" \in DOMAIN session_state[s] THEN session_state[s]["messages"] ELSE <<>>

\* the number of entries of one role
CountRole(msgs, role) == Cardinality({n \in 1..Len(msgs) : msgs[n].role = role})

Init ==
    /\ chroma_db \in {"absent", "empty", "index"}
    /\ chroma_db_zip \in {"absent", "small", "good"}
    /\ chroma_db = "index" => chroma_db_zip = "good"
    /\ chroma_db # "index" => chroma_db_zip # "good"
    /\ cache = <<>>
    /\ lock = 0
    /\ built = 0
    /\ downloads = 0
    /\ extracts = 0
    /\ dl_failures = 0
    /\ pc = [s \in Sessions |-> "idle"]
    /\ session_state = [s \in Sessions |-> NoState]
    /\ rag_chain = [s \in Sessions |-> <<>>]
    /\ got = [s \in Sessions |-> "none"]
    /\ menu = [s \in Sessions |-> <<>>]
    /\ grade = [s \in Sessions |-> <<>>]
    /\ interest = [s \in Sessions |-> <<>>]
    /\ level = [s \in Sessions |-> <<>>]
    /\ pdf_data = [s \in Sessions |-> <<>>]
    /\ user_input = [s \in Sessions |-> <<>>]
    /\ profile = [s \in Sessions |-> <<>>]
    /\ question_for_rag = [s \in Sessions |-> <<>>]
    /\ answer = [s \in Sessions |-> <<>>]
    /\ retrieved = [s \in Sessions |-> <<>>]
    /\ prompts = [s \in Sessions |-> <<>>]
    /\ error = [s \in Sessions |-> "none"]
    /\ before = [s \in Sessions |-> <<>>]
    /\ generated = [s \in Sessions |-> 0]

(***************************************************************************)
(* A script run: line 215, the call of load_rag_chain through              *)
(* st.cache_resource.                                                      *)
(***************************************************************************)
Stopped(s) == pc[s] \in {"idle", "done", "crashed"}

\* a rerun of the script for session s: the locals of the previous run are gone
BeginRun(s) ==
    /\ Stopped(s)
    /\ pc' = [pc EXCEPT ![s] = "load"]
    /\ before' = [before EXCEPT ![s] = Messages(s)]
    /\ rag_chain' = [rag_chain EXCEPT ![s] = <<>>]
    /\ got' = [got EXCEPT ![s] = "none"]
    /\ menu' = [menu EXCEPT ![s] = <<>>]
    /\ grade' = [grade EXCEPT ![s] = <<>>]
    /\ interest' = [interest EXCEPT ![s] = <<>>]
    /\ level' = [level EXCEPT ![s] = <<>>]
    /\ pdf_data' = [pdf_data EXCEPT ![s] = <<>>]
    /\ user_input' = [user_input EXCEPT ![s] = <<>>]
    /\ profile' = [profile EXCEPT ![s] = <<>>]
    /\ question_for_rag' = [question_for_rag EXCEPT ![s] = <<>>]
    /\ answer' = [answer EXCEPT ![s] = <<>>]
    /\ retrieved' = [retrieved EXCEPT ![s] = <<>>]
    /\ prompts' = [prompts EXCEPT ![s] = <<>>]
    /\ error' = [error EXCEPT ![s] = "none"]
    /\ UNCHANGED <<fsvars, cachevars, session_state, generated>>

\* st.cache_resource, first read of the cache: a hit returns the cached chain
CacheLookup(s) ==
    /\ pc[s] = "load"
    /\ IF cache # <<>>
         THEN /\ rag_chain' = [rag_chain EXCEPT ![s] = cache]
              /\ got' = [got EXCEPT ![s] = "hit"]
              /\ pc' = [pc EXCEPT ![s] = "sidebar"]
         ELSE /\ pc' = [pc EXCEPT ![s] = "wait"]
              /\ UNCHANGED <<rag_chain, got>>
    /\ UNCHANGED <<fsvars, cachevars, session_state, sidebarvars, turnvars,
                   error, before, generated>>

\* a cache whose misses compute without mutual exclusion
LockFreeAlways == TRUE

\* st.cache_resource computes a missing value under the cache's lock
LockFree == lock = 0

\* st.cache_resource on a miss: take the lock, read the cache again, and
\* only then run the body of load_rag_chain
AcquireLock(s) ==
    /\ pc[s] = "wait"
    /\ LockFree
    /\ IF cache # <<>>
         THEN /\ rag_chain' = [rag_chain EXCEPT ![s] = cache]
              /\ got' = [got EXCEPT ![s] = "recheck"]
              /\ pc' = [pc EXCEPT ![s] = "sidebar"]
              /\ UNCHANGED lock
         ELSE /\ lock' = s
              /\ pc' = [pc EXCEPT ![s] = "dl_check"]
              /\ UNCHANGED <<rag_chain, got>>
    /\ UNCHANGED <<fsvars, cache, built, session_state, sidebarvars, turnvars,
                   error, before, generated>>

\* download_and_unpack_chroma_db, lines 144-148: return when the directory
\* exists and is not empty, else remove a leftover archive
DlCheck(s) ==
    /\ pc[s] = "dl_check"
    /\ IF chroma_db = "index"
         THEN /\ pc' = [pc EXCEPT ![s] = "build"]
              /\ UNCHANGED chroma_db_zip
         ELSE /\ chroma_db_zip' = "absent"
              /\ pc' = [pc EXCEPT ![s] = "download"]
    /\ UNCHANGED <<chroma_db, downloads, extracts, dl_failures, cachevars,
                   session_state, rag_chain, got, sidebarvars, turnvars,
                   error, before, generated>>

\* lines 150-155: gdown.download leaves archive o; getsize raises when there
\* is no file, a file under 1000 bytes is reported and the function returns
DlDownload(s, o) ==
    /\ pc[s] = "download"
    /\ o = "absent" => dl_failures < MaxDownloadFailures
    /\ downloads' = downloads + 1
    /\ chroma_db_zip' = o
    /\ IF o = "absent"
         THEN /\ dl_failures' = dl_failures + 1
              /\ error' = [error EXCEPT ![s] = "download"]
              /\ lock' = 0
              /\ pc' = [pc EXCEPT ![s] = "crashed"]
         ELSE /\ pc' = [pc EXCEPT ![s] = IF o = "small" THEN "build" ELSE "extract"]
              /\ UNCHANGED <<dl_failures, error, lock>>
    /\ UNCHANGED <<chroma_db, extracts, cache, built, session_state, rag_chain,
                   got, sidebarvars, turnvars, before, generated>>

\* lines 157-162: extractall unpacks a valid archive; BadZipFile is reported
\* and the function returns; a missing file raises
DlExtract(s) ==
    /\ pc[s] = "extract"
    /\ IF chroma_db_zip = "good"
         THEN /\ chroma_db' = "index"
              /\ extracts' = extracts + 1
              /\ pc' = [pc EXCEPT ![s] = "build"]
              /\ UNCHANGED <<error, lock>>
         ELSE IF chroma_db_zip = "absent"
         THEN /\ error' = [error EXCEPT ![s] = "download"]
              /\ lock' = 0
              /\ pc' = [pc EXCEPT ![s] = "crashed"]
              /\ UNCHANGED <<chroma_db, extracts>>
         ELSE /\ pc' = [pc EXCEPT ![s] = "build"]
              /\ UNCHANGED <<chroma_db, extracts, error, lock>>
    /\ UNCHANGED <<chroma_db_zip, downloads, dl_failures, cache, built,
                   session_state, rag_chain, got, sidebarvars, turnvars,
                   before, generated>>

\* lines 169-212: the vector store over chroma_db, the retriever, the prompt
\* and the chain; st.cache_resource stores the returned chain and releases
\* the lock
BuildChain(s) ==
    /\ pc[s] = "build"
    /\ LET chain == [id |-> built + 1, indexed |-> (chroma_db = "index")]
       IN  /\ built' = built + 1
           /\ cache' = <<chain>>
           /\ rag_chain' = [rag_chain EXCEPT ![s] = <<chain>>]
    /\ lock' = 0
    /\ got' = [got EXCEPT ![s] = "built"]
    /\ pc' = [pc EXCEPT ![s] = "sidebar"]
    /\ UNCHANGED <<fsvars, session_state, sidebarvars, turnvars, error, before,
                   generated>>

(***************************************************************************)
(* A script run: the sidebar, lines 225-298.                               *)
(***************************************************************************)
\* the widgets hold menu m and, under "책 추천", grade g, interest i, level l;
\* the PDF is built from the history as it is at this point
Sidebar(s, m, g, i, l) ==
    /\ pc[s] = "sidebar"
    /\ LET gr == IF m = BookRecommendation THEN g ELSE Eopseum
           it == IF m = BookRecommendation THEN i ELSE <<>>
           lv == IF m = BookRecommendation THEN l ELSE Eopseum
           profile_for_pdf == ProfileString(gr, it, lv)
       IN  /\ menu' = [menu EXCEPT ![s] = m]
           /\ grade' = [grade EXCEPT ![s] = gr]
           /\ interest' = [interest EXCEPT ![s] = it]
           /\ level' = [level EXCEPT ![s] = lv]
           /\ pdf_data' = [pdf_data EXCEPT ![s] =
                  build_chat_pdf(Messages(s), [menu |-> m, profile |-> profile_for_pdf])]
    /\ pc' = [pc EXCEPT ![s] = "chat"]
    /\ UNCHANGED <<fsvars, cachevars, session_state, rag_chain, got, turnvars,
                   error, before, generated>>

(***************************************************************************)
(* A script run: the chat, lines 301-335.                                  *)
(***************************************************************************)
\* lines 302-310 with no input: the history key is created when missing
ChatNoInput(s) ==
    /\ pc[s] = "chat"
    /\ session_state' = [session_state EXCEPT ![s] = [k \in {"messages"} |-> Messages(s)]]
    /\ pc' = [pc EXCEPT ![s] = "done"]
    /\ UNCHANGED <<fsvars, cachevars, rag_chain, got, sidebarvars, turnvars,
                   error, before, generated>>

\* lines 302-323 with input u: the user entry is appended, then profile and
\* question_for_rag are formed
Submit(s, u) ==
    /\ pc[s] = "chat"
    /\ CountRole(Messages(s), "user") < MaxTurns
    /\ session_state' = [session_state EXCEPT ![s] =
           [k \in {"messages"} |-> AppendMessage(Messages(s), "user", u)]]
    /\ user_input' = [user_input EXCEPT ![s] = u]
    /\ LET p == ProfileString(grade[s], interest[s], level[s])
       IN  /\ profile' = [profile EXCEPT ![s] = p]
           /\ question_for_rag' = [question_for_rag EXCEPT ![s] =
                  QuestionForRag(menu[s], u, p)]
    /\ pc' = [pc EXCEPT ![s] = "invoke"]
    /\ UNCHANGED <<fsvars, cachevars, rag_chain, got, sidebarvars, answer,
                   retrieved, prompts, error, before, generated>>

\* the dict passed to rag_chain.invoke, lines 327-332
InvokeArg(s) ==
    [ question |-> question_for_rag[s], profile |-> profile[s],
      menu |-> menu[s], mode_guide |-> MODE_PROMPT(menu[s]) ]

\* the number of passages the retriever returns: k from an unpacked index,
\* none from a store that was never unpacked
Passages(s) == IF rag_chain[s][1].indexed THEN K ELSE 0

\* rag_chain.invoke returns a: the retriever was queried, the prompt rendered
InvokeOk(s, a) ==
    /\ pc[s] = "invoke"
    /\ retrieved' = [retrieved EXCEPT ![s] = <<ContextQuery(InvokeArg(s))>>]
    /\ prompts' = [prompts EXCEPT ![s] = <<RenderPrompt(InvokeArg(s), Passages(s))>>]
    /\ answer' = [answer EXCEPT ![s] = a]
    /\ generated' = [generated EXCEPT ![s] = generated[s] + 1]
    /\ pc' = [pc EXCEPT ![s] = "append"]
    /\ UNCHANGED <<fsvars, cachevars, session_state, rag_chain, got, sidebarvars,
                   user_input, profile, question_for_rag, error, before>>

\* rag_chain.invoke raises inside the retriever (the embedding call fails)
InvokeRetrievalRaise(s) ==
    /\ pc[s] = "invoke"
    /\ retrieved' = [retrieved EXCEPT ![s] = <<ContextQuery(InvokeArg(s))>>]
    /\ session_state' = [session_state EXCEPT ![s] =
           [k \in {"messages"} |-> HistoryAfterRaise(Messages(s))]]
    /\ error' = [error EXCEPT ![s] = "retrieval"]
    /\ pc' = [pc EXCEPT ![s] = "crashed"]
    /\ UNCHANGED <<fsvars, cachevars, rag_chain, got, sidebarvars, user_input,
                   profile, question_for_rag, answer, prompts, before, generated>>

\* rag_chain.invoke raises inside the language-model call
InvokeGenerationRaise(s) ==
    /\ pc[s] = "invoke"
    /\ retrieved' = [retrieved EXCEPT ![s] = <<ContextQuery(InvokeArg(s))>>]
    /\ prompts' = [prompts EXCEPT ![s] = <<RenderPrompt(InvokeArg(s), Passages(s))>>]
    /\ session_state' = [session_state EXCEPT ![s] =
           [k \in {"messages"} |-> HistoryAfterRaise(Messages(s))]]
    /\ error' = [error EXCEPT ![s] = "generation"]
    /\ pc' = [pc EXCEPT ![s] = "crashed"]
    /\ UNCHANGED <<fsvars, cachevars, rag_chain, got, sidebarvars, user_input,
                   profile, question_for_rag, answer, before, generated>>

\* line 335: the assistant entry is appended
AppendAnswer(s) ==
    /\ pc[s] = "append"
    /\ session_state' = [session_state EXCEPT ![s] =
           [k \in {"messages"} |-> AppendMessage(Messages(s), "assistant", answer[s])]]
    /\ pc' = [pc EXCEPT ![s] = "done"]
    /\ UNCHANGED <<fsvars, cachevars, rag_chain, got, sidebarvars, turnvars,
                   error, before, generated>>

(***************************************************************************)
(* Specifications.                                                         *)
(***************************************************************************)
Archives == {"absent", "small", "bad", "good"}

\* the script runs of one session
Run(s) ==
    \/ BeginRun(s)
    \/ CacheLookup(s)
    \/ AcquireLock(s)
    \/ DlCheck(s)
    \/ \E o \in Archives : DlDownload(s, o)
    \/ DlExtract(s)
    \/ BuildChain(s)
    \/ \E m \in Menus, g \in Grades, i \in Interests, l \in Levels : Sidebar(s, m, g, i, l)
    \/ ChatNoInput(s)
    \/ \E u \in Utterances : Submit(s, u)
    \/ \E a \in Answers : InvokeOk(s, a)
    \/ InvokeRetrievalRaise(s)
    \/ InvokeGenerationRaise(s)
    \/ AppendAnswer(s)

\* one browser session using the application
Next == Run(1)

Spec == Init /\ [][Next]_vars

\* script runs of every session, none of which submits a question
Load(s) ==
    \/ BeginRun(s)
    \/ CacheLookup(s)
    \/ AcquireLock(s)
    \/ DlCheck(s)
    \/ \E o \in Archives : DlDownload(s, o)
    \/ DlExtract(s)
    \/ BuildChain(s)
    \/ Sidebar(s, LibraryInfo, Eopseum, <<>>, Eopseum)
    \/ ChatNoInput(s)

NextConc == \E s \in Sessions : Load(s)

SpecConc == Init /\ [][NextConc]_vars

(***************************************************************************)
(* Properties.                                                             *)
(***************************************************************************)
IsPrefix(a, b) == Len(a) <= Len(b) /\ SubSeq(b, 1, Len(a)) = a

\* "추리소설 추천해줘", "중등", "추리", "보통"
ExampleUtterance == <<"Chu", "Ri", "So", "Seol", " ", "Chu", "Cheon", "Hae", "Jwo">>
ExampleGrade == <<"Jung", "Deung">>
ExampleInterest == <<"Chu", "Ri">>
ExampleLevel == <<"Bo", "Tong">>

\* a profile block "[학생 정보] <gl><g>, <il><i|없음>, <ll><l>" with field labels gl, il, ll
ProfileBlock(gl, il, ll, g, i, l) ==
    <<"[", "Hak", "Saeng", " ", "Jeong", "Bo", "]", " ">>
      \o gl \o g \o <<",", " ">> \o il \o (IF i = <<>> THEN Eopseum ELSE i)
      \o <<",", " ">> \o ll \o l

\* the field between "학년:<g>, 관심:" and ", 읽기수준:<l>" of profile string p
InterestField(p, g, l) == SubSeq(p, 3 + Len(g) + 5 + 1, Len(p) - Len(l) - 7)

\* C1: in the modes other than "책 추천" the text passed to the retriever is
\* the user utterance, unchanged.
C1_RetrieverGetsUtterance ==
    \A s \in Sessions :
        (retrieved[s] # <<>> /\ menu[s] \in {LibraryInfo, ReadingActivity})
            => retrieved[s] = <<user_input[s]>>

C1_Witness ==
    \E s \in Sessions :
        /\ menu[s] \in {LibraryInfo, ReadingActivity}
        /\ user_input[s] # <<>>
        /\ retrieved[s] # <<>>

\* C2 as stated: in every mode the question slot of the rendered prompt holds
\* the original user utterance.
C2_QuestionSlotIsUtterance ==
    \A s \in Sessions :
        prompts[s] # <<>> => prompts[s][1].question = user_input[s]

\* C2 amended: outside "책 추천" the question slot holds the user utterance;
\* under "책 추천" it holds the profile-augmented text, the same text that is
\* passed to the retriever.
C2_QuestionSlotIsRetrievalQuery ==
    \A s \in Sessions :
        prompts[s] # <<>> =>
            /\ menu[s] # BookRecommendation => prompts[s][1].question = user_input[s]
            /\ menu[s] = BookRecommendation =>
                  /\ <<prompts[s][1].question>> = retrieved[s]
                  /\ prompts[s][1].question # user_input[s]
                  /\ prompts[s][1].question =
                        user_input[s] \o <<"\n", "\n">>
                          \o ProfileBlock(<<"Hak", "Nyeon", ":">>, <<"Gwan", "Sim", ":">>,
                                          <<"Ilk", "Gi", "Su", "Jun", ":">>,
                                          grade[s], interest[s], level[s])

C2_Witness ==
    \E s \in Sessions :
        /\ menu[s] = BookRecommendation
        /\ prompts[s] # <<>>
        /\ Len(prompts[s][1].question) > Len(user_input[s])

\* C3 as stated: under "책 추천" the retrieval query is the utterance, a blank
\* line and "[학생 정보] grade:<g>, interest:<i|없음>, level:<l>"; the example
\* gives "추리소설 추천해줘\n\n[학생 정보] grade:중등, interest:추리, level:보통".
C3_EnglishLabels ==
    \A s \in Sessions :
        (retrieved[s] # <<>> /\ menu[s] = BookRecommendation) =>
            /\ retrieved[s][1] =
                  user_input[s] \o <<"\n", "\n">>
                    \o ProfileBlock(<<"g", "r", "a", "d", "e", ":">>,
                                    <<"i", "n", "t", "e", "r", "e", "s", "t", ":">>,
                                    <<"l", "e", "v", "e", "l", ":">>,
                                    grade[s], interest[s], level[s])
            /\ (/\ user_input[s] = ExampleUtterance
                /\ grade[s] = ExampleGrade
                /\ interest[s] = ExampleInterest
                /\ level[s] = ExampleLevel) =>
                  retrieved[s][1] =
                    <<"Chu", "Ri", "So", "Seol", " ", "Chu", "Cheon", "Hae", "Jwo",
                      "\n", "\n", "[", "Hak", "Saeng", " ", "Jeong", "Bo", "]", " ",
                      "g", "r", "a", "d", "e", ":", "Jung", "Deung", ",", " ",
                      "i", "n", "t", "e", "r", "e", "s", "t", ":", "Chu", "Ri", ",", " ",
                      "l", "e", "v", "e", "l", ":", "Bo", "Tong">>

\* C3 amended: under "책 추천" the retrieval query is the utterance, a blank
\* line and "[학생 정보] 학년:<g>, 관심:<i|없음>, 읽기수준:<l>"; the example gives
\* "추리소설 추천해줘\n\n[학생 정보] 학년:중등, 관심:추리, 읽기수준:보통", and the
\* profile slot of the prompt is "학년:<g>, 관심:<i|없음>, 읽기수준:<l>".
C3_KoreanLabels ==
    \A s \in Sessions :
        (retrieved[s] # <<>> /\ menu[s] = BookRecommendation) =>
            /\ retrieved[s][1] =
                  user_input[s] \o <<"\n", "\n">>
                    \o ProfileBlock(<<"Hak", "Nyeon", ":">>, <<"Gwan", "Sim", ":">>,
                                    <<"Ilk", "Gi", "Su", "Jun", ":">>,
                                    grade[s], interest[s], level[s])
            /\ (/\ user_input[s] = ExampleUtterance
                /\ grade[s] = ExampleGrade
                /\ interest[s] = ExampleInterest
                /\ level[s] = ExampleLevel) =>
                  retrieved[s][1] =
                    <<"Chu", "Ri", "So", "Seol", " ", "Chu", "Cheon", "Hae", "Jwo",
                      "\n", "\n", "[", "Hak", "Saeng", " ", "Jeong", "Bo", "]", " ",
                      "Hak", "Nyeon", ":", "Jung", "Deung", ",", " ",
                      "Gwan", "Sim", ":", "Chu", "Ri", ",", " ",
                      "Ilk", "Gi", "Su", "Jun", ":", "Bo", "Tong">>
            /\ prompts[s] # <<>> =>
                  <<"[", "Hak", "Saeng", " ", "Jeong", "Bo", "]", " ">>
                      \o prompts[s][1].profile
                    = ProfileBlock(<<"Hak", "Nyeon", ":">>, <<"Gwan", "Sim", ":">>,
                                   <<"Ilk", "Gi", "Su", "Jun", ":">>,
                                   grade[s], interest[s], level[s])

C3_Witness ==
    \E s \in Sessions :
        /\ menu[s] = BookRecommendation
        /\ user_input[s] = ExampleUtterance
        /\ grade[s] = ExampleGrade
        /\ interest[s] = ExampleInterest
        /\ level[s] = ExampleLevel
        /\ retrieved[s] # <<>>
        /\ prompts[s] # <<>>

\* C4: under "책 추천" the retrieval query begins with the utterance and goes
\* on with a profile block; an empty interest gives the field "없음" in the
\* block and in the profile string, and the field is never empty.
C4_PrefixAndSentinel ==
    \A s \in Sessions :
        (retrieved[s] # <<>> /\ menu[s] = BookRecommendation) =>
            LET q == retrieved[s][1]
                u == user_input[s]
                block == SubSeq(q, Len(u) + 3, Len(q))
                inblock == SubSeq(block, 9, Len(block))
            IN  /\ IsPrefix(u, q)
                /\ IsPrefix(u \o <<"\n", "\n", "[", "Hak", "Saeng", " ", "Jeong", "Bo", "]", " ">>, q)
                /\ InterestField(inblock, grade[s], level[s]) # <<>>
                /\ InterestField(profile[s], grade[s], level[s]) # <<>>
                /\ interest[s] = <<>> =>
                      /\ InterestField(inblock, grade[s], level[s]) = Eopseum
                      /\ InterestField(profile[s], grade[s], level[s]) = Eopseum

C4_Witness ==
    \E s \in Sessions :
        /\ menu[s] = BookRecommendation
        /\ interest[s] = <<>>
        /\ user_input[s] # <<>>
        /\ retrieved[s] # <<>>

\* C5: a turn whose chain invocation raises appends no assistant entry; when
\* no run is in progress the history holds one assistant entry per
\* invocation that returned.
C5_AssistantEntriesAreSuccesses ==
    \A s \in Sessions :
        /\ Stopped(s) => CountRole(Messages(s), "assistant") = generated[s]
        /\ (pc[s] = "crashed" /\ error[s] \in {"retrieval", "generation"}) =>
              CountRole(Messages(s), "assistant") = CountRole(before[s], "assistant")

C5_Witness ==
    \E s \in Sessions :
        /\ pc[s] = "crashed"
        /\ error[s] = "generation"
        /\ generated[s] >= 1

\* C6: after a turn whose generation failed the history is the history the
\* run began with.
C6_FailedTurnLeavesHistory ==
    \A s \in Sessions :
        (pc[s] = "crashed" /\ error[s] = "generation") => Messages(s) = before[s]

\* C7: when no index was unpacked, a retrieval ends in the retrieval error
\* and the turn does not go on to an answer.
C7_NoIndexNoRetrieval ==
    \A s \in Sessions :
        (/\ rag_chain[s] # <<>>
         /\ retrieved[s] # <<>>) =>
            (~rag_chain[s][1].indexed => error[s] = "retrieval")

\* C8: under every interleaving of the sessions' script runs one chain is
\* built and every session gets that chain; once the chain is cached, or
\* while the directory holds the index, nothing is downloaded, deleted or
\* extracted.
C8_InitialisedOnce ==
    /\ [](/\ built <= 1
          /\ extracts <= 1
          /\ downloads - dl_failures <= 1
          /\ \A s \in Sessions : rag_chain[s] \in {<<>>, cache}
          /\ \A s, t \in Sessions :
                (pc[s] \in {"dl_check", "download", "extract", "build"}
                   /\ pc[t] \in {"dl_check", "download", "extract", "build"}) => s = t)
    /\ [][(cache # <<>> \/ chroma_db = "index") =>
             /\ UNCHANGED <<chroma_db, chroma_db_zip, downloads, extracts>>
             /\ cache # <<>> => UNCHANGED <<cache, built>>]_vars

C8_Witness ==
    \E s, t \in Sessions :
        /\ got[s] = "built"
        /\ got[t] = "recheck"
        /\ rag_chain[s] = rag_chain[t]
        /\ built = 1

\* C9: the history only grows at its end; a run without input leaves it as
\* it was, and a run whose turn completes appends the user entry and then
\* the assistant entry.
C9_AppendOnly ==
    /\ [][\A s \in Sessions : IsPrefix(Messages(s), Messages(s)')]_vars
    /\ [](\A s \in Sessions :
             pc[s] = "done" =>
                 IF user_input[s] = <<>>
                   THEN Messages(s) = before[s]
                   ELSE Messages(s) =
                          before[s] \o <<[role |-> "user", content |-> user_input[s]],
                                         [role |-> "assistant", content |-> answer[s]]>>)

C9_Witness ==
    \E s \in Sessions :
        /\ pc[s] = "done"
        /\ user_input[s] # <<>>
        /\ Len(before[s]) >= 2
        /\ Len(Messages(s)) = Len(before[s]) + 2

\* C10: when a run has finished, the PDF it offers is the report of the
\* history as it is then, the entries appended during the run included.
C10_PdfCoversRun ==
    \A s \in Sessions :
        pc[s] = "done" =>
            pdf_data[s] = build_chat_pdf(Messages(s),
                              [menu |-> menu[s],
                               profile |-> ProfileString(grade[s], interest[s], level[s])])

====
